---- MODULE Spec2Model ----
(***************************************************************************)
(* MBohr: the BohrAtom class of src/src/MBohr/core.py.                     *)
(*                                                                         *)
(* Numbers.  The code computes with Python floats built from six physical  *)
(* constants.  A float is modelled as an exact quantity                    *)
(*        (n / d) * m_e^u[1] * e^u[2] * eps0^u[3] * h^u[4] * c^u[5]        *)
(*                * pi^u[6]                                                *)
(* with n an integer, d a positive integer and gcd(n, d) = 1: a rational   *)
(* coefficient times a monomial in the (positive) constants.  Products,    *)
(* quotients and powers are exact; sums and comparisons are taken between  *)
(* quantities of the same monomial, which is all the code ever does.       *)
(* Floating-point rounding, overflow and underflow are not modelled.       *)
(* Python's float division raises ZeroDivisionError on a zero divisor.     *)
(***************************************************************************)
EXTENDS Integers, Sequences, FiniteSets, TLC

VARIABLES atoms, born, last

vars == <<atoms, born, last>>

\* ------------------------------------------------------------------ bounds
MaxZ == 3
MaxN == 3
MaxInstances == 2
MaxNMulti == 1

\* ------------------------------------------------------- exact quantities
Abs(x) == IF x < 0 THEN -x ELSE x

RECURSIVE GCD(_, _)
GCD(a, b) == IF b = 0 THEN a ELSE GCD(b, a % b)

NoDim == <<0, 0, 0, 0, 0, 0>>

QNorm(n, d, u) ==
    LET g == GCD(Abs(n), d)
    IN  [n |-> n \div g, d |-> d \div g, u |-> u]

QInt(k) == [n |-> k, d |-> 1, u |-> NoDim]

Sym(i) == [n |-> 1, d |-> 1, u |-> [j \in 1..6 |-> IF j = i THEN 1 ELSE 0]]

QMul(a, b) == QNorm(a.n * b.n, a.d * b.d, [j \in 1..6 |-> a.u[j] + b.u[j]])

\* a / b for b # 0
QDiv(a, b) ==
    QNorm(IF b.n < 0 THEN -(a.n * b.d) ELSE a.n * b.d, a.d * Abs(b.n),
          [j \in 1..6 |-> a.u[j] - b.u[j]])

\* a - b, for quantities of the same monomial
QSub(a, b) == QNorm(a.n * b.d - b.n * a.d, a.d * b.d, a.u)

QNeg(a) == [n |-> -a.n, d |-> a.d, u |-> a.u]

QAbs(a) == [n |-> Abs(a.n), d |-> a.d, u |-> a.u]

RECURSIVE QPow(_, _)
QPow(a, k) == IF k = 0 THEN QInt(1) ELSE QMul(a, QPow(a, k - 1))

\* a < b, for quantities of the same monomial (the constants are positive)
QLess(a, b) == a.n * b.d < b.n * a.d

QSign(a) == IF a.n < 0 THEN -1 ELSE IF a.n = 0 THEN 0 ELSE 1

\* float('inf'): only a mutant produces it
QInf == [n |-> 1, d |-> 0, u |-> NoDim]

\* ------------------------------------------------------ outcomes of calls
Ok(v) == [kind |-> "ok", msg |-> "", val |-> v, int |-> 0]

Raise(kind, msg) == [kind |-> kind, msg |-> msg, val |-> QInt(0), int |-> 0]

MsgZ == "Z debe ser >= 1"
MsgN == "n debe ser >= 1"
MsgUnit == "Unidad desconocida. Use 'eV' o 'J'."

\* Python float division
truediv(a, b) ==
    IF b.n = 0 THEN Raise("ZeroDivisionError", "float division by zero")
    ELSE Ok(QDiv(a, b))

\* ------------------------------------------------- module-level constants
math_pi == Sym(6)
_h == Sym(4)
_hbar == QDiv(_h, QMul(QInt(2), math_pi))
_e == Sym(2)
_m_e == Sym(1)
_epsilon0 == Sym(3)
_c == Sym(5)

\* ------------------------------------------------------------ the strings
\* str.lower on one character
LowerChar(ch) ==
    CASE ch = "J" -> "j"
      [] ch = "E" -> "e"
      [] ch = "V" -> "v"
      [] ch = "K" -> "k"
      [] OTHER -> ch

\* str.lower: a string is a sequence of one-character strings
lower(s) == [i \in 1..Len(s) |-> LowerChar(s[i])]


\* -------------------------------------------------------------- BohrAtom
\* A constructor argument Z is <<p, q>>, the number p / q with q > 0: an int
\* when q = 1, a float otherwise.
ZLessThan1(Z) == Z[1] < Z[2]

\* int(Z) for Z >= 1: truncation
int(Z) == Z[1] \div Z[2]

\* Mutant: the check of Z is off by one (Z < 0)
BohrAtom__init___offbyone(Z) ==
    IF Z[1] < 0 THEN Raise("ValueError", MsgZ) ELSE Ok(QInt(0))

\* The outcome of __init__: the check of Z
BohrAtom__init__(Z) ==
    IF ZLessThan1(Z) THEN Raise("ValueError", MsgZ) ELSE Ok(QInt(0))

\* The instance __init__ builds when it does not raise
BohrAtom(Z) ==
    [Z |-> int(Z),
     _h |-> _h, _hbar |-> _hbar, _e |-> _e, _m_e |-> _m_e,
     _epsilon0 |-> _epsilon0, _c |-> _c,
     a0 |-> QDiv(QMul(QMul(QMul(QInt(4), math_pi), _epsilon0), QPow(_hbar, 2)),
                 QMul(_m_e, QPow(_e, 2)))]

\* Mutant: the check of n is off by one (n < 0)
energy_joule_offbyone(self, n) ==
    IF n < 0 THEN Raise("ValueError", MsgN)
    ELSE LET q == truediv(QMul(QMul(self._m_e, QPow(self._e, 4)), QInt(self.Z * self.Z)),
                          QMul(QMul(QMul(QInt(8), QPow(self._epsilon0, 2)),
                                    QPow(self._h, 2)), QInt(n * n)))
         IN  IF q.kind # "ok" THEN q ELSE Ok(QNeg(q.val))

\* Mutant: n**2 multiplies the numerator instead of the denominator
energy_joule_inverted(self, n) ==
    IF n < 1 THEN Raise("ValueError", MsgN)
    ELSE LET q == truediv(QMul(QMul(QMul(self._m_e, QPow(self._e, 4)),
                                    QInt(self.Z * self.Z)), QInt(n * n)),
                          QMul(QMul(QInt(8), QPow(self._epsilon0, 2)), QPow(self._h, 2)))
         IN  IF q.kind # "ok" THEN q ELSE Ok(QNeg(q.val))

energy_joule(self, n) ==
    IF n < 1 THEN Raise("ValueError", MsgN)
    ELSE LET q == truediv(QMul(QMul(self._m_e, QPow(self._e, 4)), QInt(self.Z * self.Z)),
                          QMul(QMul(QMul(QInt(8), QPow(self._epsilon0, 2)),
                                    QPow(self._h, 2)), QInt(n * n)))
         IN  IF q.kind # "ok" THEN q ELSE Ok(QNeg(q.val))

\* Mutant: the unit is compared without lower()
energy_casesensitive(self, n, unit) ==
    LET E_j == energy_joule(self, n)
    IN  IF E_j.kind # "ok" THEN E_j
        ELSE IF unit = <<"J">> THEN E_j
        ELSE IF unit = <<"e", "V">> THEN truediv(E_j.val, self._e)
        ELSE Raise("ValueError", MsgUnit)

\* Mutant: the unit is checked before the joule value is computed
energy_unitfirst(self, n, unit) ==
    IF lower(unit) \notin {<<"j">>, <<"e", "v">>} THEN Raise("ValueError", MsgUnit)
    ELSE LET E_j == energy_joule(self, n)
         IN  IF E_j.kind # "ok" THEN E_j
             ELSE IF lower(unit) = <<"j">> THEN E_j
             ELSE truediv(E_j.val, self._e)

energy(self, n, unit) ==
    LET E_j == energy_joule(self, n)
    IN  IF E_j.kind # "ok" THEN E_j
        ELSE IF lower(unit) = <<"j">> THEN E_j
        ELSE IF lower(unit) = <<"e", "v">> THEN truediv(E_j.val, self._e)
        ELSE Raise("ValueError", MsgUnit)

\* Mutant: n is not squared
radius_linear(self, n) ==
    IF n < 1 THEN Raise("ValueError", MsgN)
    ELSE truediv(QMul(self.a0, QInt(n)), QInt(self.Z))

radius(self, n) ==
    IF n < 1 THEN Raise("ValueError", MsgN)
    ELSE truediv(QMul(self.a0, QInt(n * n)), QInt(self.Z))

\* Mutant: the difference is taken the other way round (E_i - E_f)
transition_energy_joule_swapped(self, n_i, n_f) ==
    LET E_i == energy_joule(self, n_i)
        E_f == energy_joule(self, n_f)
    IN  IF E_i.kind # "ok" THEN E_i
        ELSE IF E_f.kind # "ok" THEN E_f
        ELSE Ok(QSub(E_i.val, E_f.val))

transition_energy_joule(self, n_i, n_f) ==
    LET E_i == energy_joule(self, n_i)
        E_f == energy_joule(self, n_f)
    IN  IF E_i.kind # "ok" THEN E_i
        ELSE IF E_f.kind # "ok" THEN E_f
        ELSE Ok(QSub(E_f.val, E_i.val))

\* Mutant: abs() is missing
transition_energy_signed(self, n_i, n_f, unit) ==
    LET dE_j == transition_energy_joule(self, n_i, n_f)
    IN  IF dE_j.kind # "ok" THEN dE_j
        ELSE IF lower(unit) = <<"j">> THEN Ok(dE_j.val)
        ELSE IF lower(unit) = <<"e", "v">> THEN truediv(dE_j.val, self._e)
        ELSE Raise("ValueError", MsgUnit)

transition_energy(self, n_i, n_f, unit) ==
    LET dE_j == transition_energy_joule(self, n_i, n_f)
    IN  IF dE_j.kind # "ok" THEN dE_j
        ELSE IF lower(unit) = <<"j">> THEN Ok(QAbs(dE_j.val))
        ELSE IF lower(unit) = <<"e", "v">> THEN truediv(QAbs(dE_j.val), self._e)
        ELSE Raise("ValueError", MsgUnit)

frequency(self, n_i, n_f) ==
    LET t == transition_energy_joule(self, n_i, n_f)
    IN  IF t.kind # "ok" THEN t ELSE truediv(QAbs(t.val), self._h)

\* Mutant: a zero frequency gives an infinite wavelength instead of raising
wavelength_inf(self, n_i, n_f) ==
    LET nu == frequency(self, n_i, n_f)
    IN  IF nu.kind # "ok" THEN nu
        ELSE IF nu.val.n = 0 THEN Ok(QInf)
        ELSE truediv(self._c, nu.val)

wavelength(self, n_i, n_f) ==
    LET nu == frequency(self, n_i, n_f)
    IN  IF nu.kind # "ok" THEN nu ELSE truediv(self._c, nu.val)

\* "<BohrAtom Z={Z} a0={a0:.3e} m>": the two values the text is built from
repr(self) ==
    [kind |-> "ok", msg |-> "<BohrAtom Z={} a0={:.3e} m>", val |-> self.a0,
     int |-> self.Z]

\* ------------------------------------------------------------- the inputs
ZInputs == {<<k, 1>> : k \in -5..MaxZ} \cup {<<1, 2>>, <<3, 2>>, <<5, 2>>}

ZInputsMulti == {<<0, 1>>, <<1, 1>>, <<2, 1>>}

Ns == -1..MaxN

NsMulti == 0..MaxNMulti

Units ==
    {<<"J">>, <<"j">>, <<"e", "V">>, <<"e", "v">>, <<"E", "V">>, <<"E", "v">>,
     <<>>, <<"K">>, <<"e", "V", "s">>}

UnitsMulti == {<<"J">>, <<"e", "V">>, <<"K">>}

\* --------------------------------------------------------------- the state
\* atoms: the instances constructed so far, in order of construction
\* born:  each instance as __init__ left it (history)
\* last:  the last call made and its outcome
Call(op, i, Z, n_i, n_f, unit, out) ==
    [op |-> op, self |-> i, zin |-> Z, n_i |-> n_i, n_f |-> n_f, unit |-> unit,
     out |-> out]

Init ==
    /\ atoms = <<>>
    /\ born = <<>>
    /\ last = Call("none", 0, <<0, 1>>, 0, 0, <<>>, Ok(QInt(0)))

Construct(cap, ZSet) ==
    \E Z \in ZSet :
        LET r == BohrAtom__init__(Z)
        IN  IF r.kind # "ok"
            THEN /\ last' = Call("__init__", 0, Z, 0, 0, <<>>, r)
                 /\ UNCHANGED <<atoms, born>>
            ELSE /\ Len(atoms) < cap
                 /\ atoms' = Append(atoms, BohrAtom(Z))
                 /\ born' = Append(born, BohrAtom(Z))
                 /\ last' = Call("__init__", Len(atoms) + 1, Z, 0, 0, <<>>, r)

CallEnergyJoule(NSet) ==
    \E i \in 1..Len(atoms), n \in NSet :
        /\ last' = Call("energy_joule", i, <<0, 1>>, n, 0, <<>>, energy_joule(atoms[i], n))
        /\ UNCHANGED <<atoms, born>>

CallEnergy(NSet, USet) ==
    \E i \in 1..Len(atoms), n \in NSet, unit \in USet :
        /\ last' = Call("energy", i, <<0, 1>>, n, 0, unit, energy(atoms[i], n, unit))
        /\ UNCHANGED <<atoms, born>>

\* Mutant: radius() keeps its result in self.a0
CallRadius_storing(NSet) ==
    \E i \in 1..Len(atoms), n \in NSet :
        LET r == radius(atoms[i], n)
        IN  /\ last' = Call("radius", i, <<0, 1>>, n, 0, <<>>, r)
            /\ atoms' = IF r.kind = "ok" THEN [atoms EXCEPT ![i].a0 = r.val] ELSE atoms
            /\ UNCHANGED born

CallRadius(NSet) ==
    \E i \in 1..Len(atoms), n \in NSet :
        /\ last' = Call("radius", i, <<0, 1>>, n, 0, <<>>, radius(atoms[i], n))
        /\ UNCHANGED <<atoms, born>>

CallTransitionEnergyJoule(NSet) ==
    \E i \in 1..Len(atoms), n_i \in NSet, n_f \in NSet :
        /\ last' = Call("transition_energy_joule", i, <<0, 1>>, n_i, n_f, <<>>,
                        transition_energy_joule(atoms[i], n_i, n_f))
        /\ UNCHANGED <<atoms, born>>

CallTransitionEnergy(NSet, USet) ==
    \E i \in 1..Len(atoms), n_i \in NSet, n_f \in NSet, unit \in USet :
        /\ last' = Call("transition_energy", i, <<0, 1>>, n_i, n_f, unit,
                        transition_energy(atoms[i], n_i, n_f, unit))
        /\ UNCHANGED <<atoms, born>>

CallFrequency(NSet) ==
    \E i \in 1..Len(atoms), n_i \in NSet, n_f \in NSet :
        /\ last' = Call("frequency", i, <<0, 1>>, n_i, n_f, <<>>,
                        frequency(atoms[i], n_i, n_f))
        /\ UNCHANGED <<atoms, born>>

CallWavelength(NSet) ==
    \E i \in 1..Len(atoms), n_i \in NSet, n_f \in NSet :
        /\ last' = Call("wavelength", i, <<0, 1>>, n_i, n_f, <<>>,
                        wavelength(atoms[i], n_i, n_f))
        /\ UNCHANGED <<atoms, born>>

CallRepr ==
    \E i \in 1..Len(atoms) :
        /\ last' = Call("__repr__", i, <<0, 1>>, 0, 0, <<>>, repr(atoms[i]))
        /\ UNCHANGED <<atoms, born>>

\* One instance, every argument
Next ==
    \/ Construct(1, ZInputs)
    \/ CallEnergyJoule(Ns)
    \/ CallEnergy(Ns, Units)
    \/ CallRadius(Ns)
    \/ CallTransitionEnergyJoule(Ns)
    \/ CallTransitionEnergy(Ns, Units)
    \/ CallFrequency(Ns)
    \/ CallWavelength(Ns)
    \/ CallRepr

Spec == Init /\ [][Next]_vars

\* Several instances, calls interleaved on them
NextMulti ==
    \/ Construct(MaxInstances, ZInputsMulti)
    \/ CallEnergyJoule(NsMulti)
    \/ CallEnergy(NsMulti, UnitsMulti)
    \/ CallRadius(NsMulti)
    \/ CallTransitionEnergyJoule(NsMulti)
    \/ CallTransitionEnergy(NsMulti, UnitsMulti)
    \/ CallFrequency(NsMulti)
    \/ CallWavelength(NsMulti)
    \/ CallRepr

SpecMulti == Init /\ [][NextMulti]_vars

\* ---------------------------------------------------------------- claims
Self == atoms[last.self]

OneLevelOps == {"energy_joule", "energy", "radius"}

TwoLevelOps == {"transition_energy_joule", "transition_energy", "frequency", "wavelength"}

\* The unit strings equal to "J" or to "eV" when letter case is ignored
UnitsJ == {<<"J">>, <<"j">>}

UnitsEV == {<<"e", "V">>, <<"e", "v">>, <<"E", "V">>, <<"E", "v">>}

\* 4 pi eps0 hbar^2 / (m_e e^2) with hbar = h / (2 pi): eps0 h^2 / (pi m_e e^2)
BohrRadius == [n |-> 1, d |-> 1, u |-> <<-1, -2, 1, 2, 0, -1>>]

\* C1: wavelength(n, n) with n >= 1 ends in the division-by-zero error
\* (ZeroDivisionError) and returns no value, on every atom.
C1_WavelengthSameLevelRaises ==
    (last.op = "wavelength" /\ last.n_i >= 1 /\ last.n_f = last.n_i)
        => last.out.kind = "ZeroDivisionError"

C1_Witness ==
    /\ last.op = "wavelength"
    /\ last.n_i = 2
    /\ last.n_f = 2
    /\ Self.Z = 2
    /\ last.out.kind = "ZeroDivisionError"

\* C2: construction with Z < 1 raises the error of Z (ValueError) and adds no
\* instance; construction with an integer Z >= 1 succeeds and stores that Z;
\* every instance has Z >= 1.
C2_ConstructedState ==
    /\ \A i \in 1..Len(atoms) : atoms[i].Z >= 1
    /\ last.op = "__init__" =>
         /\ ZLessThan1(last.zin) =>
              /\ last.out.kind = "ValueError"
              /\ last.out.msg = MsgZ
              /\ last.self = 0
         /\ (~ZLessThan1(last.zin) /\ last.zin[2] = 1) =>
              /\ last.out.kind = "ok"
              /\ last.self = Len(atoms)
              /\ Self.Z = last.zin[1]

C2_ConstructStep ==
    last'.op = "__init__" =>
        IF ZLessThan1(last'.zin) THEN atoms' = atoms
        ELSE atoms' # atoms => /\ Len(atoms') = Len(atoms) + 1
                               /\ SubSeq(atoms', 1, Len(atoms)) = atoms

C2_Construction == []C2_ConstructedState /\ [][C2_ConstructStep]_vars

C2_Witness ==
    /\ last.op = "__init__"
    /\ last.zin = <<2, 1>>
    /\ last.out.kind = "ok"
    /\ Len(atoms) = 1
    /\ atoms[1].Z = 2

\* C3: a query with a quantum number below 1 raises the error of n and
\* returns no value: n < 1 for energy_joule, energy and radius; n_i < 1 or
\* n_f < 1 for transition_energy_joule, transition_energy, frequency and
\* wavelength.
C3_InvalidLevelRaises ==
    (\/ last.op \in OneLevelOps /\ last.n_i < 1
     \/ last.op \in TwoLevelOps /\ (last.n_i < 1 \/ last.n_f < 1))
        => last.out = Raise("ValueError", MsgN)

C3_Witness ==
    /\ last.op = "wavelength"
    /\ last.n_i = 2
    /\ last.n_f = 0
    /\ last.out = Raise("ValueError", MsgN)

\* C4: with valid quantum numbers energy and transition_energy accept exactly
\* the units equal to "J" or "eV" up to letter case and raise the error of
\* the unit for any other; in J the result is the joule value (for
\* transition_energy: the magnitude in joules), in eV it is that value
\* divided by the elementary charge.
C4_Units ==
    /\ (last.op = "energy" /\ last.n_i >= 1) =>
         LET J == energy_joule(Self, last.n_i)
         IN  IF last.unit \in UnitsJ THEN last.out = J
             ELSE IF last.unit \in UnitsEV
                  THEN last.out.kind = "ok" /\ QMul(last.out.val, _e) = J.val
             ELSE last.out = Raise("ValueError", MsgUnit)
    /\ (last.op = "transition_energy" /\ last.n_i >= 1 /\ last.n_f >= 1) =>
         LET J == QAbs(transition_energy_joule(Self, last.n_i, last.n_f).val)
         IN  IF last.unit \in UnitsJ THEN last.out = Ok(J)
             ELSE IF last.unit \in UnitsEV
                  THEN last.out.kind = "ok" /\ QMul(last.out.val, _e) = J
             ELSE last.out = Raise("ValueError", MsgUnit)

C4_Witness ==
    /\ last.op = "energy"
    /\ last.n_i = 2
    /\ last.unit = <<"E", "v">>
    /\ last.out.kind = "ok"
    /\ last.out.val # energy_joule(Self, 2).val

C6_TransitionSymmetric ==
    (/\ last.op = "transition_energy"
     /\ last.n_i >= 1
     /\ last.n_f >= 1
     /\ last.unit \in UnitsJ \cup UnitsEV) =>
        /\ last.out.kind = "ok"
        /\ last.out = transition_energy(Self, last.n_f, last.n_i, last.unit)
        /\ QSign(last.out.val) >= 0

C6_Witness ==
    /\ last.op = "transition_energy"
    /\ last.n_i = 3
    /\ last.n_f = 1
    /\ last.unit = <<"e", "V">>
    /\ QSign(last.out.val) = 1

Eval(self, c) ==
    CASE c.op = "energy_joule" -> energy_joule(self, c.n_i)
      [] c.op = "energy" -> energy(self, c.n_i, c.unit)
      [] c.op = "radius" -> radius(self, c.n_i)
      [] c.op = "transition_energy_joule" -> transition_energy_joule(self, c.n_i, c.n_f)
      [] c.op = "transition_energy" -> transition_energy(self, c.n_i, c.n_f, c.unit)
      [] c.op = "frequency" -> frequency(self, c.n_i, c.n_f)
      [] c.op = "wavelength" -> wavelength(self, c.n_i, c.n_f)
      [] c.op = "__repr__" -> repr(self)

\* C8: no call, failing or not, changes an instance: every instance keeps
\* the Z, a0 and constants __init__ gave it, so the outcome of a query is the
\* one it has on the instance as constructed, whatever was called before on
\* it or on another instance.
C8_InstancesAsBorn ==
    /\ atoms = born
    /\ last.op \notin {"none", "__init__"} => last.out = Eval(born[last.self], last)

C8_QueryStep == \A i \in 1..Len(atoms) : atoms'[i] = atoms[i]

C8_Immutable == []C8_InstancesAsBorn /\ [][C8_QueryStep]_vars

C8_Witness ==
    /\ Len(atoms) = 2
    /\ atoms[1].Z = 2
    /\ atoms[2].Z = 1
    /\ last.op = "wavelength"
    /\ last.self = 1
    /\ last.out.kind = "ZeroDivisionError"

C10_LevelCheckFirst ==
    /\ (/\ last.op \in {"energy", "transition_energy"}
        /\ last.unit \notin UnitsJ \cup UnitsEV
        /\ (last.n_i < 1 \/ (last.op = "transition_energy" /\ last.n_f < 1))) =>
           last.out = Raise("ValueError", MsgN)
    /\ (last.op = "wavelength" /\ last.n_i < 1 /\ last.n_f = last.n_i) =>
           last.out = Raise("ValueError", MsgN)

C10_Witness ==
    /\ last.op = "energy"
    /\ last.n_i = 0
    /\ last.unit = <<"K">>
    /\ last.out = Raise("ValueError", MsgN)

====
